---- MODULE Spec2Model ----
(***************************************************************************)
(* A model of monitor.py, the AI trends monitor: fetch_github_trending,    *)
(* analyze_for_pm, generate_report, send_feishu and main.                  *)
(*                                                                         *)
(* A Python str is a sequence of characters, one element per code point.   *)
(* An ASCII character is the one-character string; a character outside     *)
(* ASCII is written by its code point, "U+4EE3"; the newline is "\n".      *)
(***************************************************************************)
EXTENDS Integers, Sequences, FiniteSets, TLC

VARIABLES
    FEISHU_WEBHOOK, \* line 14: the webhook URL read from the environment
    pc,             \* the position of main
    topic_i,        \* index of the next topic of the loop of line 49
    results,        \* fetch_github_trending: the list of line 47
    get_log,        \* the topic of each GET issued, in order
    post_log,       \* each POST issued to the webhook, in order
    responses,      \* the response each GET of the run was given
    snapshots,      \* results as it was after each iteration of line 49
    github_repos,   \* generate_report: the list of line 102
    now,            \* the minute datetime.now() reports
    report,         \* main: the text of line 121
    file,           \* the report file: whether it exists, and its content
    write_outcome,  \* lines 125-126: "none" before them, then "ok" or "raised"
    stdout,         \* what print has logged, one tag per call
    repo,           \* analyze_for_pm: its argument
    analysis,       \* analyze_for_pm: its return value
    apc             \* the position of a call of analyze_for_pm

vars == <<FEISHU_WEBHOOK, pc, topic_i, results, get_log, post_log, responses, snapshots,
          github_repos, now, report, file, write_outcome, stdout, repo, analysis, apc>>

main_vars == <<FEISHU_WEBHOOK, pc, topic_i, results, get_log, post_log, responses, snapshots,
               github_repos, now, report, file, write_outcome, stdout>>

analyze_vars == <<repo, analysis, apc>>

-----------------------------------------------------------------------------
(* Bounds of the model.                                                    *)

\* the most items one search response carries
MaxItems == 3
\* the most fragments a description given to analyze_for_pm is made of
MaxFrags == 2
\* the length of the long description of the item pool
PadLen == 1400

-----------------------------------------------------------------------------
(* The string literals of monitor.py.                                      *)

\* the keyword of line 73
KW_agent ==
    <<"a", "g", "e", "n", "t">>
\* the first keyword of line 75
KW_llm ==
    <<"l", "l", "m">>
\* the second keyword of line 75
KW_model ==
    <<"m", "o", "d", "e", "l">>
\* the first keyword of line 77
KW_ui ==
    <<"u", "i">>
\* the second keyword of line 77
KW_interface ==
    <<"i", "n", "t", "e", "r", "f", "a", "c", "e">>
\* the keyword of line 88
KW_experimental ==
    <<"e", "x", "p", "e", "r", "i", "m", "e", "n", "t", "a", "l">>
\* line 74
AgentLine ==
    <<"U+1F3AF", " ", "*", "*", "A", "g", "e", "n", "t", "U+65B9", "U+5411", "*", "*",
      "U+FF1A", "A", "I", "U+4EE3", "U+7406", "U+662F", "U+5F53", "U+524D", "U+70ED", "U+70B9",
      "U+FF0C", "U+53EF", "U+80FD", "U+6539", "U+53D8", "U+5DE5", "U+4F5C", "U+6D41">>
\* line 76
ModelLine ==
    <<"U+1F9E0", " ", "*", "*", "U+6A21", "U+578B", "U+5C42", "U+521B", "U+65B0", "*", "*",
      "U+FF1A", "U+57FA", "U+7840", "U+6A21", "U+578B", "U+6216", "U+5FAE", "U+8C03", "U+65B9",
      "U+6848", "U+FF0C", "U+5173", "U+6CE8", "U+6280", "U+672F", "U+7A81", "U+7834">>
\* line 78
InteractionLine ==
    <<"U+1F3A8", " ", "*", "*", "U+4EA4", "U+4E92", "U+521B", "U+65B0", "*", "*", "U+FF1A",
      "A", "I", "U+4EA7", "U+54C1", "U+754C", "U+9762", "U+5C42", "U+521B", "U+65B0", "U+FF0C",
      "U+7528", "U+6237", "U+4F53", "U+9A8C", "U+4F18", "U+5316">>
\* line 83, before {stars}
HighPrefix ==
    <<"U+1F525", " ", "*", "*", "U+9AD8", "U+5173", "U+6CE8", "U+5EA6", "*", "*", "U+FF1A">>
\* line 83, after {stars}
HighSuffix ==
    <<" ", "s", "t", "a", "r", "s", "U+FF0C", "U+793E", "U+533A", "U+8BA4", "U+53EF", "U+5EA6",
      "U+9AD8", "U+FF0C", "U+503C", "U+5F97", "U+6DF1", "U+5165", "U+7814", "U+7A76">>
\* line 85, before {stars}
EarlyPrefix ==
    <<"U+26A1", " ", "*", "*", "U+65E9", "U+671F", "U+4FE1", "U+53F7", "*", "*", "U+FF1A">>
\* line 85, after {stars}
EarlySuffix ==
    <<" ", "s", "t", "a", "r", "s", "U+FF0C", "U+5904", "U+4E8E", "U+7206", "U+53D1", "U+524D",
      "U+591C", "U+FF0C", "U+62A2", "U+5148", "U+5E03", "U+5C40">>
\* line 89
CautionLine ==
    <<"U+26A0", "U+FE0F", " ", "*", "*", "U+5B9E", "U+9A8C", "U+6027", "U+8D28", "*", "*",
      "U+FF1A", "U+6280", "U+672F", "U+5C1A", "U+672A", "U+6210", "U+719F", "U+FF0C", "U+5546",
      "U+4E1A", "U+5316", "U+9700", "U+8C28", "U+614E">>
\* line 91
FallbackLine ==
    <<"U+1F4A1", " ", "*", "*", "U+503C", "U+5F97", "U+5173", "U+6CE8", "*", "*", "U+FF1A",
      "U+65B0", "U+6280", "U+672F", "U+65B9", "U+5411", "U+FF0C", "U+6301", "U+7EED", "U+89C2",
      "U+5BDF">>
\* line 59
NoDescription ==
    <<"N", "o", " ", "d", "e", "s", "c", "r", "i", "p", "t", "i", "o", "n">>
\* line 96
ReportTitle ==
    <<"U+1F4CA", " ", "A", "I", " ", "U+8D8B", "U+52BF", "U+76D1", "U+63A7", "U+62A5", "U+544A">>
\* line 97
TimePrefix ==
    <<"U+65F6", "U+95F4", "U+FF1A">>
\* line 101
GithubHeading ==
    <<"\n", "U+1F525", " ", "G", "i", "t", "H", "u", "b", " ", "A", "I", " ", "U+70ED",
      "U+95E8", "U+9879", "U+76EE", "\n">>
\* line 105
TitleSep ==
    <<".", " ", "*", "*">>
\* line 105
TitleStar ==
    <<"*", "*", " ", "U+2B50", " ">>
\* line 106
DescPrefix ==
    <<" ", " ", " ", "U+63CF", "U+8FF0", "U+FF1A">>
\* line 107
UrlPrefix ==
    <<" ", " ", " ", "U+94FE", "U+63A5", "U+FF1A">>
\* line 108
CreatedPrefix ==
    <<" ", " ", " ", "U+521B", "U+5EFA", "U+FF1A">>
\* line 109
PmHeading ==
    <<" ", " ", " ", "\n", " ", " ", " ", "U+1F4C8", " ", "P", "M", "U+5206", "U+6790", "U+FF1A">>
\* line 112
Indent ==
    <<" ", " ", " ">>
\* line 129
FeishuTitle ==
    <<"U+1F525", " ", "A", "I", " ", "U+8D8B", "U+52BF", "U+65E5", "U+62A5">>

-----------------------------------------------------------------------------
(* Python's str operations, as they act on sequences of characters.        *)

NL == "\n"

UpperCase ==
    <<"A", "B", "C", "D", "E", "F", "G", "H", "I", "J", "K", "L", "M",
      "N", "O", "P", "Q", "R", "S", "T", "U", "V", "W", "X", "Y", "Z">>

LowerCase ==
    <<"a", "b", "c", "d", "e", "f", "g", "h", "i", "j", "k", "l", "m",
      "n", "o", "p", "q", "r", "s", "t", "u", "v", "w", "x", "y", "z">>

Digit == <<"0", "1", "2", "3", "4", "5", "6", "7", "8", "9">>

\* str.lower on one character: an upper-case ASCII letter maps to its lower-case
\* letter, every other character of the model's alphabet to itself
lower_char(c) ==
    IF \E i \in 1..Len(UpperCase) : UpperCase[i] = c
    THEN LowerCase[CHOOSE i \in 1..Len(UpperCase) : UpperCase[i] = c]
    ELSE c

\* a mutant of lower: the description is matched as it is written
lower_kept(s) == s

\* str.lower
lower(s) == [i \in 1..Len(s) |-> lower_char(s[i])]

\* a mutant of contains: sub must start a word of s (a word-anchored match)
contains_word(sub, s) ==
    \E i \in 1..(Len(s) - Len(sub) + 1) :
        /\ SubSeq(s, i, i + Len(sub) - 1) = sub
        /\ (i = 1 \/ s[i - 1] = " ")

\* sub in s, for two str
contains(sub, s) ==
    \E i \in 1..(Len(s) - Len(sub) + 1) : SubSeq(s, i, i + Len(sub) - 1) = sub

\* str(n) as an f-string interpolates a non-negative int: its decimal digits
RECURSIVE str(_)
str(n) ==
    IF n < 10 THEN <<Digit[n + 1]>>
    ELSE str(n \div 10) \o <<Digit[(n % 10) + 1]>>

\* sep.join(xs) for a list xs of str
RECURSIVE join(_, _)
join(sep, xs) ==
    IF xs = <<>> THEN <<>>
    ELSE IF Len(xs) = 1 THEN xs[1]
    ELSE xs[1] \o sep \o join(sep, Tail(xs))

\* s.split(c) for a one-character separator c
RECURSIVE split(_, _)
split(s, c) ==
    IF \E i \in 1..Len(s) : s[i] = c
    THEN LET i == CHOOSE k \in 1..Len(s) : s[k] = c /\ \A j \in 1..(k - 1) : s[j] # c
         IN  <<SubSeq(s, 1, i - 1)>> \o split(SubSeq(s, i + 1, Len(s)), c)
    ELSE <<s>>

\* xs[:n] for n >= 0
slice_to(xs, n) == SubSeq(xs, 1, IF Len(xs) < n THEN Len(xs) ELSE n)

-----------------------------------------------------------------------------
(* analyze_for_pm, lines 68-91.                                            *)

\* a mutant of tier_lines: the second test is an if, not an elif
tier_lines_if(stars) ==
    (IF stars > 1000 THEN <<HighPrefix \o str(stars) \o HighSuffix>> ELSE <<>>)
    \o (IF stars > 100 THEN <<EarlyPrefix \o str(stars) \o EarlySuffix>> ELSE <<>>)

\* lines 82-85: what the popularity tier appends
tier_lines(stars) ==
    IF stars > 1000 THEN <<HighPrefix \o str(stars) \o HighSuffix>>
    ELSE IF stars > 100 THEN <<EarlyPrefix \o str(stars) \o EarlySuffix>>
    ELSE <<>>

\* a mutant of analysis_text: the list is joined also when it is empty
analysis_text_joined(lines) == join(<<NL>>, lines)

\* line 91: the return value, for the list the rules built
analysis_text(lines) ==
    IF lines # <<>> THEN join(<<NL>>, lines) ELSE FallbackLine

\* lines 70-89: the list the rules build, each rule appending to it in turn
analysis_lines(r) ==
    LET d  == lower(r.description)
        a1 == IF contains(KW_agent, d) THEN <<AgentLine>> ELSE <<>>
        a2 == IF contains(KW_llm, d) \/ contains(KW_model, d)
              THEN Append(a1, ModelLine) ELSE a1
        a3 == IF contains(KW_ui, d) \/ contains(KW_interface, d)
              THEN Append(a2, InteractionLine) ELSE a2
        a4 == a3 \o tier_lines(r.stars)
        a5 == IF contains(KW_experimental, d) THEN Append(a4, CautionLine) ELSE a4
    IN  a5

analyze_for_pm(r) == analysis_text(analysis_lines(r))

-----------------------------------------------------------------------------
(* The inputs analyze_for_pm is called with.                               *)

Fragments ==
    {<<"a", "g", "e", "n", "t">>,
     <<"A", "g", "e", "n", "t">>,
     <<"A", "G", "E">>,
     <<"N", "T">>,
     <<"l", "l", "m">>,
     <<"L", "L", "M">>,
     <<"M", "o", "d", "e", "l">>,
     <<"u", "i">>,
     <<"b", "u">>,
     <<"i", "l", "d">>,
     <<"I", "n", "t", "e", "r", "f", "a", "c", "e">>,
     <<"e", "x", "p", "e", "r", "i", "m", "e", "n", "t", "a", "l">>,
     <<"E", "X", "P", "E", "R", "I">>,
     <<"m", "e", "n", "t", "a", "l">>,
     <<" ">>,
     <<"t", "o", "o", "l">>}

\* the descriptions made of at most k fragments
RECURSIVE FragmentTexts(_)
FragmentTexts(k) ==
    IF k = 0 THEN {<<>>}
    ELSE LET shorter == FragmentTexts(k - 1)
         IN  shorter \cup {d \o f : d \in shorter, f \in Fragments}

ScenarioAgent ==
    <<"A", "n", " ", "e", "x", "p", "e", "r", "i", "m", "e", "n", "t", "a", "l", " ", "L", "L",
      "M", " ", "a", "g", "e", "n", "t", " ", "f", "r", "a", "m", "e", "w", "o", "r", "k">>

ScenarioBuild ==
    <<"A", " ", "b", "u", "i", "l", "d", " ", "t", "o", "o", "l">>

ScenarioAll ==
    <<"E", "x", "p", "e", "r", "i", "m", "e", "n", "t", "a", "l", " ", "U", "I", " ", "m", "o",
      "d", "e", "l", " ", "f", "o", "r", " ", "a", "g", "e", "n", "t", "s">>

Descriptions ==
    FragmentTexts(MaxFrags) \cup {ScenarioAgent, ScenarioBuild, ScenarioAll, NoDescription}

Stars == {0, 10, 50, 100, 101, 150, 1000, 1001, 1500, 2500}

RepoName ==
    <<"o", "c", "t", "o", "/", "r", "e", "p", "o">>

RepoUrl ==
    <<"h", "t", "t", "p", "s", ":", "/", "/", "g", "i", "t", "h", "u", "b", ".", "c", "o", "m",
      "/", "o", "c", "t", "o", "/", "r", "e", "p", "o">>

RepoCreated ==
    <<"2", "0", "2", "6", "-", "0", "3", "-", "0", "1">>

Repos ==
    {[name |-> RepoName, stars |-> s, description |-> d, url |-> RepoUrl,
      created |-> RepoCreated] : d \in Descriptions, s \in Stars}

NoRepo ==
    [name |-> <<>>, stars |-> 0, description |-> <<>>, url |-> <<>>, created |-> <<>>]

-----------------------------------------------------------------------------
(* fetch_github_trending, lines 40-66.                                     *)

\* line 46
topics == <<"artificial-intelligence", "machine-learning", "llm", "claude", "openai">>

\* line 49: topics[:2]
consulted_topics == slice_to(topics, 2)

\* lines 57-61: the keys read of an item
RequiredKeys == {"full_name", "stargazers_count", "description", "html_url", "created_at"}

\* lines 56-62: the dict appended for an item; a description that is None or ''
\* (the empty sequence here) becomes 'No description'
convert(item) ==
    [name        |-> item.full_name,
     stars       |-> item.stargazers_count,
     description |-> IF item.description = <<>> THEN NoDescription ELSE item.description,
     url         |-> item.html_url,
     created     |-> slice_to(item.created_at, 10)]

\* lines 55-62: the loop over the items; an item that lacks a key raises KeyError,
\* which leaves the loop with what was appended so far
RECURSIVE append_items(_, _)
append_items(res, items) ==
    IF items = <<>> THEN [results |-> res, raised |-> FALSE]
    ELSE IF ~(RequiredKeys \subseteq DOMAIN Head(items))
         THEN [results |-> res, raised |-> TRUE]
         ELSE append_items(Append(res, convert(Head(items))), Tail(items))

\* a mutant of fetch_topic: the status of the response is not tested
fetch_topic_any_status(res, resp) ==
    IF resp.raises THEN [results |-> res, raised |-> TRUE]
    ELSE IF ~resp.parses THEN [results |-> res, raised |-> TRUE]
    ELSE append_items(res, IF resp.has_items THEN resp.items ELSE <<>>)

\* a mutant of fetch_topic: the items of a topic are appended only when all
\* of them were processed
fetch_topic_all_or_none(res, resp) ==
    IF resp.raises THEN [results |-> res, raised |-> TRUE]
    ELSE IF resp.status_code # 200 THEN [results |-> res, raised |-> FALSE]
    ELSE IF ~resp.parses THEN [results |-> res, raised |-> TRUE]
    ELSE LET out == append_items(res, IF resp.has_items THEN resp.items ELSE <<>>)
         IN  IF out.raised THEN [results |-> res, raised |-> TRUE] ELSE out

\* lines 51-64: one iteration of the loop over the topics, given the response
\* to its GET: results after it, and whether the except clause was entered
fetch_topic(res, resp) ==
    IF resp.raises THEN [results |-> res, raised |-> TRUE]
    ELSE IF resp.status_code # 200 THEN [results |-> res, raised |-> FALSE]
    ELSE IF ~resp.parses THEN [results |-> res, raised |-> TRUE]
    ELSE append_items(res, IF resp.has_items THEN resp.items ELSE <<>>)

\* a mutant of returned_repos: the list is returned whole
returned_repos_all(res) == res

\* line 66: results[:5]
returned_repos(res) == slice_to(res, 5)

-----------------------------------------------------------------------------
(* generate_report, lines 93-115.                                          *)

\* lines 96-101: the header block
header_lines(t) ==
    <<ReportTitle, TimePrefix \o t, [k \in 1..50 |-> "="], GithubHeading>>

\* lines 105-113: the lines of the i-th repo
block_lines(i, r) ==
    LET text == split(analyze_for_pm(r), NL)
    IN  <<str(i) \o TitleSep \o r.name \o TitleStar \o str(r.stars),
          DescPrefix \o r.description,
          UrlPrefix \o r.url,
          CreatedPrefix \o r.created,
          PmHeading>>
        \o [k \in 1..Len(text) |-> Indent \o text[k]]
        \o << <<>> >>

\* lines 104-113: the loop over enumerate(github_repos, 1), from index i on
RECURSIVE repo_lines(_, _)
repo_lines(i, repos) ==
    IF i > Len(repos) THEN <<>>
    ELSE block_lines(i, repos[i]) \o repo_lines(i + 1, repos)

\* line 115
report_text(t, repos) == join(<<NL>>, header_lines(t) \o repo_lines(1, repos))

-----------------------------------------------------------------------------
(* send_feishu, lines 17-38, and main, lines 117-131.                      *)

\* a mutant of feishu_content: the report is sent whole
feishu_content_whole(text) == text

\* line 129: report[:3000]
feishu_content(text) == slice_to(text, 3000)

\* lines 23-33
payload(title, content) ==
    [msg_type |-> "post",
     content  |-> [post |-> [zh_cn |-> [title   |-> title,
                                        content |-> << <<[tag |-> "text", text |-> content]>> >>]]]]

\* a mutant of after_post: an exception of the POST leaves send_feishu
after_post_uncaught(post_raises) == IF post_raises THEN "crashed" ELSE "sent"

\* lines 35-38: where main is after the POST; the except clause catches what it raises
after_post(post_raises) == "sent"

\* a mutant of after_write: a failure of the write is passed over
after_write_caught(write_raises) == "send"

\* lines 125-126: where main is after the write; nothing catches what it raises
after_write(write_raises) == IF write_raises THEN "crashed" ELSE "send"

-----------------------------------------------------------------------------
(* The environment: the search API's responses, the clock, the webhook.    *)

NameA ==
    <<"o", "c", "t", "o", "/", "a", "g", "e", "n", "t", "-", "k", "i", "t">>
UrlA ==
    <<"h", "t", "t", "p", "s", ":", "/", "/", "g", "i", "t", "h", "u", "b", ".", "c", "o", "m",
      "/", "o", "c", "t", "o", "/", "a", "g", "e", "n", "t", "-", "k", "i", "t">>
CreatedA ==
    <<"2", "0", "2", "6", "-", "0", "3", "-", "0", "1", "T", "0", "8", ":", "3", "0", ":", "0",
      "0", "Z">>
NameB ==
    <<"a", "c", "m", "e", "/", "f", "o", "r", "g", "e">>
UrlB ==
    <<"h", "t", "t", "p", "s", ":", "/", "/", "g", "i", "t", "h", "u", "b", ".", "c", "o", "m",
      "/", "a", "c", "m", "e", "/", "f", "o", "r", "g", "e">>
CreatedB ==
    <<"2", "0", "2", "6", "-", "0", "2", "-", "1", "4", "T", "2", "1", ":", "0", "5", ":", "0",
      "9", "Z">>
NameC ==
    <<"z", "e", "d", "/", "h", "a", "l", "f">>
NameD ==
    <<"a", "c", "m", "e", "/", "m", "a", "k", "e", "r">>
UrlD ==
    <<"h", "t", "t", "p", "s", ":", "/", "/", "g", "i", "t", "h", "u", "b", ".", "c", "o", "m",
      "/", "a", "c", "m", "e", "/", "m", "a", "k", "e", "r">>
CreatedD ==
    <<"2", "0", "2", "6", "-", "0", "4", "-", "0", "2", "T", "1", "0", ":", "0", "0", ":", "0",
      "0", "Z">>
CreatedC ==
    <<"2", "0", "2", "6", "-", "0", "1", "-", "2", "0", "T", "0", "0", ":", "0", "0", ":", "0",
      "0", "Z">>

NameL ==
    <<"l", "o", "n", "g", "/", "r", "e", "a", "d", "m", "e">>
UrlL ==
    <<"h", "t", "t", "p", "s", ":", "/", "/", "g", "i", "t", "h", "u", "b", ".", "c", "o", "m",
      "/", "l", "o", "n", "g", "/", "r", "e", "a", "d", "m", "e">>

ItemA ==
    [full_name |-> NameA, stargazers_count |-> 2500, description |-> ScenarioAgent,
     html_url |-> UrlA, created_at |-> CreatedA]

\* an item whose description is null
ItemB ==
    [full_name |-> NameB, stargazers_count |-> 150, description |-> <<>>,
     html_url |-> UrlB, created_at |-> CreatedB]

\* an item that lacks html_url
ItemC ==
    [full_name |-> NameC, stargazers_count |-> 1001, description |-> ScenarioAll,
     created_at |-> CreatedC]

ItemD ==
    [full_name |-> NameD, stargazers_count |-> 10, description |-> ScenarioBuild,
     html_url |-> UrlD, created_at |-> CreatedD]

\* an item with a long description
ItemL ==
    [full_name |-> NameL, stargazers_count |-> 101,
     description |-> NoDescription \o [k \in 1..PadLen |-> "."],
     html_url |-> UrlL, created_at |-> CreatedA]

ItemPool == {ItemA, ItemB, ItemC, ItemD}

\* the item lists of a response: at most MaxItems items of the pool, no item
\* twice, and two lists with the long item
ItemLists ==
    {l \in UNION {[1..k -> ItemPool] : k \in 0..MaxItems} :
        \A i, j \in 1..Len(l) : i # j => l[i] # l[j]}
    \cup {<<ItemL>>, <<ItemB, ItemL>>}

\* requests.get raised
ResponseRaised ==
    [raises |-> TRUE, status_code |-> 0, parses |-> FALSE, has_items |-> FALSE, items |-> <<>>]

\* a response that is not 200, whatever its body
ResponseError ==
    [raises |-> FALSE, status_code |-> 500, parses |-> TRUE, has_items |-> TRUE,
     items |-> <<ItemB>>]

\* a 200 whose body is not JSON
ResponseUnparsed ==
    [raises |-> FALSE, status_code |-> 200, parses |-> FALSE, has_items |-> FALSE,
     items |-> <<>>]

\* a 200 whose JSON has no 'items'
ResponseNoItems ==
    [raises |-> FALSE, status_code |-> 200, parses |-> TRUE, has_items |-> FALSE,
     items |-> <<>>]

Responses ==
    {ResponseRaised, ResponseError, ResponseUnparsed, ResponseNoItems}
    \cup {[raises |-> FALSE, status_code |-> 200, parses |-> TRUE, has_items |-> TRUE,
           items |-> l] : l \in ItemLists}

WebhookUrl ==
    <<"h", "t", "t", "p", "s", ":", "/", "/", "o", "p", "e", "n", ".", "f", "e", "i", "s", "h",
      "u", ".", "c", "n", "/", "h", "o", "o", "k", "/", "1">>

ClockA ==
    <<"2", "0", "2", "6", "-", "1", "1", "-", "0", "2", " ", "0", "9", ":", "0", "0">>
ClockB ==
    <<"2", "0", "2", "6", "-", "1", "2", "-", "3", "1", " ", "2", "3", ":", "5", "9">>

Clock == {ClockA, ClockB}

NoFile == [exists |-> FALSE, content |-> <<>>]

-----------------------------------------------------------------------------
(* A run of main.                                                          *)

AnalyzeIdle ==
    /\ repo = NoRepo
    /\ analysis = <<>>
    /\ apc = "idle"

Init ==
    /\ FEISHU_WEBHOOK \in {<<>>, WebhookUrl}
    /\ pc = "start"
    /\ topic_i = 1
    /\ results = <<>>
    /\ get_log = <<>>
    /\ post_log = <<>>
    /\ responses = <<>>
    /\ snapshots = <<>>
    /\ github_repos = <<>>
    /\ now = <<>>
    /\ report = <<>>
    /\ file = NoFile
    /\ write_outcome = "none"
    /\ stdout = <<>>
    /\ AnalyzeIdle

\* lines 119, 95-102: main calls generate_report, which reads the clock and
\* calls fetch_github_trending
Start ==
    /\ pc = "start"
    /\ now' \in Clock
    /\ stdout' = Append(stdout, "Starting AI Trends Monitor...")
    /\ pc' = "fetch"
    /\ UNCHANGED <<FEISHU_WEBHOOK, topic_i, results, get_log, post_log, responses,
                   snapshots, github_repos, report, file, write_outcome, analyze_vars>>

\* lines 49-64: one iteration of the loop over topics[:2]
Query ==
    /\ pc = "fetch"
    /\ topic_i <= Len(consulted_topics)
    /\ \E resp \in Responses :
          LET out == fetch_topic(results, resp)
          IN  /\ results' = out.results
              /\ snapshots' = Append(snapshots, out.results)
              /\ stdout' = IF out.raised THEN Append(stdout, "GitHub API error") ELSE stdout
              /\ responses' = Append(responses, resp)
    /\ get_log' = Append(get_log, consulted_topics[topic_i])
    /\ topic_i' = topic_i + 1
    /\ UNCHANGED <<FEISHU_WEBHOOK, pc, post_log, github_repos, now, report, file,
                   write_outcome, analyze_vars>>

\* lines 66, 102-115, 121-122: fetch_github_trending returns, generate_report
\* builds the text and main prints it
Build ==
    /\ pc = "fetch"
    /\ topic_i > Len(consulted_topics)
    /\ github_repos' = returned_repos(results)
    /\ report' = report_text(now, github_repos')
    /\ stdout' = Append(stdout, "report")
    /\ pc' = "write"
    /\ UNCHANGED <<FEISHU_WEBHOOK, topic_i, results, get_log, post_log, responses,
                   snapshots, now, file, write_outcome, analyze_vars>>

\* lines 125-126: the report file is opened and written; open may raise (no
\* reports directory), leaving no file, and the write may raise after open
\* created the file, leaving it empty or with the first half of the text
WriteFile ==
    /\ pc = "write"
    /\ \E outcome \in {"written", "open raises", "write raises"} :
          /\ file' \in
                CASE outcome = "written" -> {[exists |-> TRUE, content |-> report]}
                  [] outcome = "open raises" -> {file}
                  [] outcome = "write raises" ->
                        {[exists |-> TRUE, content |-> slice_to(report, n)] :
                            n \in {0, Len(report) \div 2}}
          /\ write_outcome' = IF outcome = "written" THEN "ok" ELSE "raised"
          /\ pc' = after_write(outcome # "written")
    /\ UNCHANGED <<FEISHU_WEBHOOK, topic_i, results, get_log, post_log, responses,
                   snapshots, github_repos, now, report, stdout, analyze_vars>>

\* lines 129, 17-38: send_feishu with the report cut to its first 3000 characters
SendFeishu ==
    /\ pc = "send"
    /\ IF FEISHU_WEBHOOK = <<>>
       THEN /\ stdout' = Append(stdout, "Warning: FEISHU_WEBHOOK not set")
            /\ pc' = "sent"
            /\ UNCHANGED post_log
       ELSE \E post_raises \in BOOLEAN :
               /\ post_log' = Append(post_log,
                                     [url  |-> FEISHU_WEBHOOK,
                                      json |-> payload(FeishuTitle, feishu_content(report))])
               /\ stdout' = IF post_raises /\ after_post(post_raises) = "sent"
                            THEN Append(stdout, "Send feishu error") ELSE stdout
               /\ pc' = after_post(post_raises)
    /\ UNCHANGED <<FEISHU_WEBHOOK, topic_i, results, get_log, responses, snapshots,
                   github_repos, now, report, file, write_outcome, analyze_vars>>

\* line 131
Complete ==
    /\ pc = "sent"
    /\ stdout' = Append(stdout, "Monitor completed!")
    /\ pc' = "done"
    /\ UNCHANGED <<FEISHU_WEBHOOK, topic_i, results, get_log, post_log, responses,
                   snapshots, github_repos, now, report, file, write_outcome,
                   analyze_vars>>

Next == Start \/ Query \/ Build \/ WriteFile \/ SendFeishu \/ Complete

Spec == Init /\ [][Next]_vars

-----------------------------------------------------------------------------
(* A call of analyze_for_pm on its own.                                    *)

MainIdle ==
    /\ FEISHU_WEBHOOK = <<>>
    /\ pc = "idle"
    /\ topic_i = 1
    /\ results = <<>>
    /\ get_log = <<>>
    /\ post_log = <<>>
    /\ responses = <<>>
    /\ snapshots = <<>>
    /\ github_repos = <<>>
    /\ now = <<>>
    /\ report = <<>>
    /\ file = NoFile
    /\ write_outcome = "none"
    /\ stdout = <<>>

InitAnalyze ==
    /\ MainIdle
    /\ repo \in Repos
    /\ analysis = <<>>
    /\ apc = "call"

Analyze ==
    /\ apc = "call"
    /\ analysis' = analyze_for_pm(repo)
    /\ apc' = "returned"
    /\ UNCHANGED <<repo, main_vars>>

NextAnalyze == Analyze

SpecAnalyze == InitAnalyze /\ [][NextAnalyze]_vars

-----------------------------------------------------------------------------
(* What the claims are stated with.                                        *)

\* kw, a lower-case keyword, occurs in d with each letter in either case
OccursAnyCase(kw, d) ==
    \E i \in 1..(Len(d) - Len(kw) + 1) :
        \A j \in 1..Len(kw) :
            \/ d[i + j - 1] = kw[j]
            \/ \E k \in 1..Len(LowerCase) :
                  LowerCase[k] = kw[j] /\ UpperCase[k] = d[i + j - 1]

\* the decimal numeral of n, for 0 <= n < 10000
Numeral(n) ==
    LET len == IF n < 10 THEN 1 ELSE IF n < 100 THEN 2 ELSE IF n < 1000 THEN 3 ELSE 4
        pow == <<1000, 100, 10, 1>>
    IN  [i \in 1..len |-> Digit[((n \div pow[4 - len + i]) % 10) + 1]]

StartsWith(s, p) == Len(s) >= Len(p) /\ SubSeq(s, 1, Len(p)) = p

\* the lines of xs whose flag is set, in the order of xs
RECURSIVE Chosen(_)
Chosen(xs) ==
    IF xs = <<>> THEN <<>>
    ELSE (IF xs[1].on THEN <<xs[1].line>> ELSE <<>>) \o Chosen(Tail(xs))

\* the rules of the annotator in their order, each with whether it matches r
RuleTable(r) ==
    LET d == r.description
    IN  <<[on |-> OccursAnyCase(KW_agent, d), line |-> AgentLine],
          [on |-> OccursAnyCase(KW_llm, d) \/ OccursAnyCase(KW_model, d), line |-> ModelLine],
          [on |-> OccursAnyCase(KW_ui, d) \/ OccursAnyCase(KW_interface, d),
           line |-> InteractionLine],
          [on |-> r.stars > 1000, line |-> HighPrefix \o Numeral(r.stars) \o HighSuffix],
          [on |-> r.stars > 100 /\ r.stars <= 1000,
           line |-> EarlyPrefix \o Numeral(r.stars) \o EarlySuffix],
          [on |-> OccursAnyCase(KW_experimental, d), line |-> CautionLine]>>

NoKeyword(d) ==
    \A kw \in {KW_agent, KW_llm, KW_model, KW_ui, KW_interface, KW_experimental} :
        ~OccursAnyCase(kw, d)

Emits(text, prefix) ==
    \E i \in 1..Len(split(text, NL)) : StartsWith(split(text, NL)[i], prefix)

-----------------------------------------------------------------------------
(* The claims about analyze_for_pm, under SpecAnalyze.                     *)

\* C1: analyze_for_pm returns the newline-joined list of exactly the rules that
\* match, each once, in the order Agent, Model-layer, Interaction, popularity
\* tier with the exact count, caution, matching in any letter case; for 'An
\* experimental LLM agent framework' with 2500 stars these are the four lines
\* Agent, Model-layer, high-attention(2500), caution.
C1_RulesInOrder ==
    apc = "returned" =>
        /\ Chosen(RuleTable(repo)) # <<>> =>
              split(analysis, NL) = Chosen(RuleTable(repo))
        /\ (repo.description = ScenarioAgent /\ repo.stars = 2500) =>
              split(analysis, NL) =
                  <<AgentLine, ModelLine,
                    HighPrefix \o <<"2", "5", "0", "0">> \o HighSuffix, CautionLine>>

\* C1's case: a call returned for a repo on which all five rules match
C1_Witness ==
    /\ apc = "returned"
    /\ Len(Chosen(RuleTable(repo))) = 5
    /\ repo.description # lower(repo.description)

\* C2: the high-attention line is emitted iff stars > 1000, the early-signal line
\* iff 100 < stars <= 1000, and never both.
C2_TiersExclusive ==
    apc = "returned" =>
        /\ Emits(analysis, HighPrefix) <=> repo.stars > 1000
        /\ Emits(analysis, EarlyPrefix) <=> (repo.stars > 100 /\ repo.stars <= 1000)
        /\ ~(Emits(analysis, HighPrefix) /\ Emits(analysis, EarlyPrefix))

\* C2's case: a call returned for 1500 stars, with the high-attention line
C2_Witness ==
    /\ apc = "returned"
    /\ repo.stars = 1500
    /\ Emits(analysis, HighPrefix)

\* C3: the fallback line is the whole output exactly when no keyword occurs in
\* the description (in any case) and stars <= 100; otherwise no line of the
\* output is the fallback line; the output is never empty.
C3_FallbackIffNothingFired ==
    apc = "returned" =>
        /\ analysis # <<>>
        /\ IF NoKeyword(repo.description) /\ repo.stars <= 100
           THEN analysis = FallbackLine
           ELSE \A i \in 1..Len(split(analysis, NL)) : split(analysis, NL)[i] # FallbackLine

\* C3's case: a call returned the fallback line alone
C3_Witness ==
    /\ apc = "returned"
    /\ analysis = FallbackLine
    /\ repo.description # <<>>

\* C4, as claimed: for 'A build tool' with 10 stars the output is the fallback line.
C4_Original ==
    (apc = "returned" /\ repo.description = ScenarioBuild /\ repo.stars = 10) =>
        analysis = FallbackLine

\* C4, amended: for 'A build tool' with 10 stars the output is exactly the single
\* Interaction line, since 'build' contains 'ui'; the fallback line is not emitted.
C4_BuildToolIsInteraction ==
    (apc = "returned" /\ repo.description = ScenarioBuild /\ repo.stars = 10) =>
        analysis = InteractionLine

\* C4's case: a call returned for 'A build tool' with 10 stars
C4_Witness ==
    /\ apc = "returned"
    /\ repo.description = ScenarioBuild
    /\ repo.stars = 10

-----------------------------------------------------------------------------
(* The claims about a run of main, under Spec.                             *)

\* the query got no 200: requests.get raised, or the status is another one
Failed(resp) == resp.raises \/ resp.status_code # 200

\* the items a response carries, as the search API sent them
ItemsOf(resp) ==
    IF ~resp.raises /\ resp.status_code = 200 /\ resp.parses /\ resp.has_items
    THEN resp.items ELSE <<>>

\* the number of items of a list before the first one that lacks a key
LeadLen(items) ==
    CHOOSE k \in 0..Len(items) :
        /\ \A i \in 1..k : RequiredKeys \subseteq DOMAIN items[i]
        /\ k = Len(items) \/ ~(RequiredKeys \subseteq DOMAIN items[k + 1])

\* results as it was before the i-th query
Before(i) == IF i = 1 THEN <<>> ELSE snapshots[i - 1]

\* repo r is item it, field by field
IsItem(r, it) ==
    /\ r.name = it.full_name
    /\ r.stars = it.stargazers_count
    /\ r.url = it.html_url
    /\ r.description = (IF it.description = <<>> THEN NoDescription ELSE it.description)
    /\ Len(r.created) = 10
    /\ \A k \in 1..10 : r.created[k] = it.created_at[k]

Built == pc \in {"write", "send", "sent", "done", "crashed"}

Smaller(a, b) == IF a < b THEN a ELSE b

\* the lines of the report that start with a digit: the title lines of its blocks
TitleLines ==
    SelectSeq(split(report, NL),
              LAMBDA l : l # <<>> /\ \E k \in 1..Len(Digit) : Digit[k] = l[1])

\* C5: a query that raises or gets a status other than 200 adds no item and is
\* not propagated, and the other tag is queried and its items are collected;
\* when both queries fail the list is empty and the report is its header block.
C5_FailedQueryAddsNothing ==
    /\ \A i \in 1..Len(responses) :
          Failed(responses[i]) => snapshots[i] = Before(i)
    /\ Built => /\ Len(get_log) = 2
                /\ Len(responses) = 2
                /\ \A i \in 1..2 :
                      (Failed(responses[i]) /\ ~Failed(responses[3 - i])) =>
                          /\ Len(results) = LeadLen(ItemsOf(responses[3 - i]))
                          /\ \A k \in 1..Len(results) :
                                IsItem(results[k], responses[3 - i].items[k])
                /\ (Failed(responses[1]) /\ Failed(responses[2])) =>
                      /\ github_repos = <<>>
                      /\ split(report, NL) =
                            <<ReportTitle, TimePrefix \o now, [k \in 1..50 |-> "="]>>
                            \o split(GithubHeading, NL)

\* C5's case: the run completed though one query raised and the other got a 500
C5_Witness ==
    /\ pc = "done"
    /\ responses[1].raises
    /\ ~responses[2].raises
    /\ responses[2].status_code # 200

\* C6, as claimed: the returned list is the first 5 of the first tag's items
\* followed by the second tag's items, whatever the queries returned.
C6_Original ==
    Built =>
        LET all == ItemsOf(responses[1]) \o ItemsOf(responses[2])
        IN  /\ Len(github_repos) = Smaller(5, Len(all))
            /\ \A k \in 1..Len(github_repos) :
                  github_repos[k].name = all[k].full_name

\* C6, amended: the returned list has at most 5 items and is the first 5 (or
\* fewer) of the items the first tag contributed followed by those the second
\* contributed, a tag contributing the items of its 200 response up to the first
\* one whose processing raises (all of them when none does, none when the query
\* fails), in response order, nothing removed as a duplicate; only the first two
\* topics are queried; the report has one block per returned item, in that order.
C6_FirstFiveOfContributed ==
    /\ get_log = SubSeq(<<topics[1], topics[2]>>, 1, Len(get_log))
    /\ Built =>
        LET one == ItemsOf(responses[1])
            two == ItemsOf(responses[2])
            all == SubSeq(one, 1, LeadLen(one)) \o SubSeq(two, 1, LeadLen(two))
        IN  /\ get_log = <<topics[1], topics[2]>>
            /\ Len(github_repos) <= 5
            /\ Len(github_repos) = Smaller(5, Len(all))
            /\ \A k \in 1..Len(github_repos) : IsItem(github_repos[k], all[k])
            /\ TitleLines =
                  [k \in 1..Len(github_repos) |->
                      Numeral(k) \o TitleSep \o all[k].full_name \o TitleStar
                      \o Numeral(all[k].stargazers_count)]

\* C6's case: the two tags contributed more than 5 items, one of them twice
C6_Witness ==
    /\ pc = "done"
    /\ Len(results) > 5
    /\ Len(github_repos) = 5
    /\ \E i, j \in 1..5 : i # j /\ github_repos[i] = github_repos[j]

\* C7: the webhook step never ends the run abnormally: without a webhook URL no
\* POST is issued, a POST that raises is caught, and from the webhook step main
\* goes on to its final step with the report file written.
C7_WebhookNeverFatal ==
    /\ [](/\ FEISHU_WEBHOOK = <<>> => post_log = <<>>
          /\ pc = "crashed" => post_log = <<>>
          /\ pc \in {"send", "sent", "done"} =>
                write_outcome = "ok" /\ file.exists /\ file.content = report
          /\ pc = "done" => stdout[Len(stdout)] = "Monitor completed!")
    /\ [][(pc = "send" => pc' = "sent") /\ (pc = "sent" => pc' = "done")]_vars

\* C7's case: the run completed though the POST raised
C7_Witness ==
    /\ pc = "done"
    /\ FEISHU_WEBHOOK # <<>>
    /\ \E i \in 1..Len(stdout) : stdout[i] = "Send feishu error"

\* C7's other case: the run completed without a webhook URL
C7_WitnessSkipped ==
    /\ pc = "done"
    /\ FEISHU_WEBHOOK = <<>>
    /\ \E i \in 1..Len(stdout) : stdout[i] = "Warning: FEISHU_WEBHOOK not set"

\* C8, as claimed: in every run with a webhook URL the POST is attempted,
\* whether the file write succeeded or failed.
C8_Original ==
    (pc \in {"done", "crashed"} /\ FEISHU_WEBHOOK # <<>>) => post_log # <<>>

\* C8, amended: the file write is attempted in every run that built its report,
\* before the webhook step and whatever that step's outcome; with a webhook URL
\* the POST is attempted exactly when the file write succeeded: a write that
\* fails ends the run before the webhook step.
C8_PostOnlyAfterWrite ==
    /\ (pc \in {"done", "crashed"} /\ FEISHU_WEBHOOK # <<>>) =>
          (post_log # <<>> <=> write_outcome = "ok")
    /\ pc = "crashed" <=> write_outcome = "raised"
    /\ pc \in {"send", "sent", "done"} <=> write_outcome = "ok"
    /\ post_log # <<>> => write_outcome = "ok"
    /\ Len(post_log) <= 1

\* C8's case: a webhook URL is set, the write failed, and no POST was issued
C8_Witness ==
    /\ pc = "crashed"
    /\ FEISHU_WEBHOOK # <<>>
    /\ post_log = <<>>
    /\ write_outcome = "raised"

\* the text of a POST's payload
PostedText(post) == post.json.content.post.zh_cn.content[1][1].text

\* C9: the text posted is the first 3000 characters of the report (all of it
\* when it has no more), and the file holds the whole report.
C9_PostIsPrefixFileIsWhole ==
    /\ write_outcome = "ok" => file.exists /\ file.content = report
    /\ \A i \in 1..Len(post_log) :
          LET text == PostedText(post_log[i])
          IN  /\ Len(text) = Smaller(Len(report), 3000)
              /\ \A k \in 1..Len(text) : text[k] = report[k]
              /\ post_log[i].url = FEISHU_WEBHOOK

\* C9's case: a report of more than 3000 characters was written and posted
C9_Witness ==
    /\ pc = "done"
    /\ Len(report) > 3000
    /\ write_outcome = "ok"
    /\ Len(file.content) = Len(report)
    /\ post_log # <<>>

\* C10: when a 200 response's processing raises (the body does not parse, or its
\* k-th item lacks a key), the exception is swallowed, the k-1 items appended
\* before it stay in results, and what the earlier tag added is unchanged.
C10_PartialItemsKept ==
    /\ \A i \in 1..Len(responses) :
          LET resp == responses[i]
              k    == LeadLen(ItemsOf(resp))
              n    == Len(Before(i))
          IN  (~Failed(resp) /\ (~resp.parses \/ k < Len(ItemsOf(resp)))) =>
                  /\ Len(snapshots[i]) = n + k
                  /\ SubSeq(snapshots[i], 1, n) = Before(i)
                  /\ \A j \in 1..k : IsItem(snapshots[i][n + j], resp.items[j])
    /\ Cardinality({i \in 1..Len(stdout) : stdout[i] = "GitHub API error"})
          = Cardinality({i \in 1..Len(responses) :
                            \/ responses[i].raises
                            \/ /\ responses[i].status_code = 200
                               /\ \/ ~responses[i].parses
                                  \/ LeadLen(ItemsOf(responses[i]))
                                        < Len(ItemsOf(responses[i]))})
    /\ Built => Len(responses) = 2

\* C10's case: the second tag's third item lacks a key, its first two are kept
\* after the items of the first tag, and the run completed
C10_Witness ==
    /\ pc = "done"
    /\ snapshots[1] # <<>>
    /\ ~Failed(responses[2])
    /\ Len(ItemsOf(responses[2])) = 3
    /\ LeadLen(ItemsOf(responses[2])) = 2
    /\ Len(snapshots[2]) = Len(snapshots[1]) + 2

====
